---- MODULE Spec2Model ----
(***************************************************************************)
(* AIS ingestion and reconciliation engine of vessel_tracker:              *)
(* vessel_tracker/api/live_vessels.py (aggregation queue, change gate,     *)
(* identity resolution, batch execution against the Vessels table).        *)
(*                                                                         *)
(* Encoding of Python values.  None is the empty tuple and a value v is    *)
(* the 1-tuple <<v>>, so that optional fields of different types never     *)
(* meet in one comparison.  A string is a tuple of string tokens:          *)
(* str(7) is <<"7">>, f"AIS-{mmsi}" is <<"AIS-", "1">>, the empty string   *)
(* is <<>>.  Positions are integers in units of 0.0001 degree, so the      *)
(* 0.001 degree threshold is 10 units.  Time is in whole seconds.          *)
(* The audit columns (ais_last_update, creation, modified, owner, grt,     *)
(* dwt) take no part in any decision of the engine and are not stored.     *)
(***************************************************************************)
EXTENDS Integers, Sequences, FiniteSets, TLC

VARIABLES
    registry,        \* rows of `tabVessels`
    vessel_cache,    \* live_vessels.vessel_cache : the dict's <<cache key, timestamp>> entries
    update_queue,    \* live_vessels.update_queue : mmsi string -> dict, and the order of its keys
    last_batch_time, \* live_vessels.last_batch_time
    jobs,            \* batches handed to frappe.enqueue, oldest first
    now,             \* time.time()
    window,          \* history: per pending mmsi, the additive union of the window's updates
    last,            \* history: what the last run of update_vessel_ais_batch did
    prev,            \* history: the run before it (kept by SpecGate only)
    sent,            \* history: the <<mmsi, fields>> of every update enqueued so far
    worker,          \* AISStreamWorker: should_stop and the position in connect_ais_stream
    rq,              \* the RQ jobs named ais_stream_worker, and the calls of start_ais_stream_if_needed
    running          \* per background worker: its vessel_cache and the batch it is executing

vars == <<registry, vessel_cache, update_queue, last_batch_time, jobs, now, window, last, prev,
          sent, worker, rq, running>>

----------------------------------------------------------------------------
(* Bounds of the model *)

MaxBatch == 3        \* vessels per batch drawn by UpdateVesselAisBatch
MaxTime == 50        \* the clock stops here
MaxAttempts == 2     \* connections the stream worker tries
MaxFrames == 2       \* frames a connection delivers
MaxIdle == 420       \* the clock of the refresh runs stops here
MaxCalls == 3        \* calls of start_ais_stream_if_needed

(* Program constants *)

MAX_CACHE_SIZE == 10000
CACHE_KEEP == 5000
RATE_LIMIT_SECONDS == 30
FORCE_UPDATE_SECONDS == 300
POSITION_DELTA == 10
FLUSH_SECONDS == 10
FLUSH_KEYS == 50

----------------------------------------------------------------------------
(* Python values *)

None == <<>>
Some(v) == <<v>>
Val(x) == x[1]

\* dict.get(k): None for a missing key
Get(d, k) == IF k \in DOMAIN d THEN d[k] ELSE None

\* truth value of an optional number (None and 0 are falsy)
TruthyNum(x) == x # None /\ Val(x) # 0
\* truth value of an optional string (None and "" are falsy)
TruthyStr(x) == x # None /\ Val(x) # <<>>

\* str(n) for an integer
Str(n) == <<ToString(n)>>
\* s.startswith(prefix) for a one-token prefix
StartsWith(s, prefix) == Len(s) >= 1 /\ s[1] = prefix

Abs(n) == IF n < 0 THEN -n ELSE n

\* vessel_data.get('imo_number') and isinstance(vessel_data.get('imo_number'), int)
HasGenuineImo(vessel_data) == TruthyNum(Get(vessel_data, "imo_number"))

\* variant: the synthetic identifier without its tag
AisImoUntagged(mmsi) == mmsi

\* f"AIS-{mmsi}"
AisImo(mmsi) == <<"AIS-">> \o mmsi
\* f"{base_imo}-{counter}"
Suffixed(base_imo, counter) == base_imo \o <<"-", ToString(counter)>>

----------------------------------------------------------------------------
(* The Vessels table *)

Columns == {"name", "ais_mmsi", "imo_number", "vessel_name",
            "ais_last_position_lat", "ais_last_position_lon", "ais_speed",
            "ais_course", "ais_status", "ais_destination"}

\* a row from the column values an INSERT supplies; the other columns are NULL
Row(values) == [c \in Columns |-> IF c \in DOMAIN values THEN values[c] ELSE None]

\* frappe.db.exists('Vessels', {'imo_number': imo})
ImoExists(reg, imo) == \E r \in reg : r.imo_number = Some(imo)

\* the unique index on Vessels.imo_number: writing imo to the row called name
\* is refused when another row holds it
DuplicateImo(reg, name, imo) ==
    \E r \in reg : r.name # Some(name) /\ r.imo_number = imo /\ imo # None

\* UPDATE `tabVessels` SET ... WHERE name = ... / frappe.db.set_value
ApplySet(reg, name, set) ==
    { IF r.name = Some(name)
        THEN [c \in Columns |-> IF c \in DOMAIN set THEN set[c] ELSE r[c]]
        ELSE r : r \in reg }

----------------------------------------------------------------------------
(* ChangeGate: should_update_vessel *)

\* f"vessel_update_{mmsi}"
CacheKey(mmsi) == <<"vessel_update_">> \o mmsi

\* vessel_cache is a dict: its entries <<key, timestamp>> in insertion order
CacheKeys(cache) == {cache[i][1] : i \in 1..Len(cache)}

\* vessel_cache.get(cache_key)
CacheGet(cache, key) ==
    LET at == {i \in 1..Len(cache) : cache[i][1] = key}
    IN  IF at = {} THEN None ELSE Some(cache[CHOOSE i \in at : TRUE][2])

\* vessel_cache[cache_key] = current_time: a known key keeps its place
CachePut(cache, key, t) ==
    IF key \in CacheKeys(cache)
    THEN [i \in 1..Len(cache) |-> IF cache[i][1] = key THEN <<key, t>> ELSE cache[i]]
    ELSE Append(cache, <<key, t>>)

\* variant: the items left in insertion order
SortedCacheUnsorted(cache, times) == cache

\* sorted(vessel_cache.items(), key=lambda x: x[1], reverse=True): the sort
\* is stable, entries of one timestamp keep their order
RECURSIVE SortedCache(_, _)
SortedCache(cache, times) ==
    IF times = {} THEN <<>>
    ELSE LET newest == CHOOSE t \in times : \A u \in times : u <= t
             IsNewest(e) == e[2] = newest
         IN  SelectSeq(cache, IsNewest) \o SortedCache(cache, times \ {newest})

\* variant: the size test never fires
EvictCacheNever(cache) == cache

\* the "keep only recent 5000 entries" block
EvictCache(cache) ==
    IF Len(cache) > MAX_CACHE_SIZE
    THEN SubSeq(SortedCache(cache, {cache[i][2] : i \in 1..Len(cache)}), 1, CACHE_KEEP)
    ELSE cache

\* existing_record.get(column, 0): 0 only when the row has no such key
GetOrZero(row, column) == IF column \in DOMAIN row THEN row[column] ELSE Some(0)

\* the position block of should_update_vessel; float(None) raises TypeError,
\* which the except clause swallows
PositionChanged(new_data, row) ==
    /\ TruthyNum(Get(new_data, "latitude"))
    /\ TruthyNum(Get(new_data, "longitude"))
    /\ GetOrZero(row, "ais_last_position_lat") # None
    /\ GetOrZero(row, "ais_last_position_lon") # None
    /\ LET lat_change == Abs(Val(new_data.latitude)
                               - Val(GetOrZero(row, "ais_last_position_lat")))
           lon_change == Abs(Val(new_data.longitude)
                               - Val(GetOrZero(row, "ais_last_position_lon")))
       IN  lat_change > POSITION_DELTA \/ lon_change > POSITION_DELTA

\* variant: the position rule consulted before the 30 second rate limit
should_update_vessel_position_first(cache, t, mmsi, new_data, existing_record) ==
    IF existing_record = None
    THEN [ok |-> TRUE, cache |-> cache]
    ELSE LET evicted == EvictCache(cache)
             cache_key == CacheKey(mmsi)
             last_update == CacheGet(evicted, cache_key)
         IN  IF PositionChanged(new_data, Val(existing_record))
             THEN [ok |-> TRUE, cache |-> CachePut(evicted, cache_key, t)]
             ELSE IF TruthyNum(last_update) /\ t - Val(last_update) < RATE_LIMIT_SECONDS
             THEN [ok |-> FALSE, cache |-> evicted]
             ELSE IF ~TruthyNum(last_update)
                     \/ t - Val(last_update) > FORCE_UPDATE_SECONDS
             THEN [ok |-> TRUE, cache |-> CachePut(evicted, cache_key, t)]
             ELSE [ok |-> FALSE, cache |-> evicted]

\* variant: the gate without the refresh after FORCE_UPDATE_SECONDS
should_update_vessel_no_refresh(cache, t, mmsi, new_data, existing_record) ==
    IF existing_record = None
    THEN [ok |-> TRUE, cache |-> cache]
    ELSE LET evicted == EvictCache(cache)
             cache_key == CacheKey(mmsi)
             last_update == CacheGet(evicted, cache_key)
         IN  IF TruthyNum(last_update) /\ t - Val(last_update) < RATE_LIMIT_SECONDS
             THEN [ok |-> FALSE, cache |-> evicted]
             ELSE IF PositionChanged(new_data, Val(existing_record))
             THEN [ok |-> TRUE, cache |-> CachePut(evicted, cache_key, t)]
             ELSE IF ~TruthyNum(last_update)
             THEN [ok |-> TRUE, cache |-> CachePut(evicted, cache_key, t)]
             ELSE [ok |-> FALSE, cache |-> evicted]

\* should_update_vessel(mmsi, new_data, existing_record) called at time t with
\* the cache as it stands; the answer and the cache it leaves
should_update_vessel(cache, t, mmsi, new_data, existing_record) ==
    IF existing_record = None
    THEN [ok |-> TRUE, cache |-> cache]
    ELSE LET evicted == EvictCache(cache)
             cache_key == CacheKey(mmsi)
             last_update == CacheGet(evicted, cache_key)
         IN  IF TruthyNum(last_update) /\ t - Val(last_update) < RATE_LIMIT_SECONDS
             THEN [ok |-> FALSE, cache |-> evicted]
             ELSE IF PositionChanged(new_data, Val(existing_record))
             THEN [ok |-> TRUE, cache |-> CachePut(evicted, cache_key, t)]
             ELSE IF ~TruthyNum(last_update)
                     \/ t - Val(last_update) > FORCE_UPDATE_SECONDS
             THEN [ok |-> TRUE, cache |-> CachePut(evicted, cache_key, t)]
             ELSE [ok |-> FALSE, cache |-> evicted]

----------------------------------------------------------------------------
(* IdentityResolver: the prepare_* functions *)

\* s.strip(): whitespace is the token " "
RECURSIVE Strip(_)
Strip(s) ==
    IF s = <<>> THEN s
    ELSE IF Head(s) = " " THEN Strip(Tail(s))
    ELSE IF s[Len(s)] = " " THEN Strip(SubSeq(s, 1, Len(s) - 1))
    ELSE s

\* s[:n]
Truncate(s, n) == IF Len(s) > n THEN SubSeq(s, 1, n) ELSE s

\* a dict entry that is present only under a condition
Opt(cond, key, value) == IF cond THEN key :> value ELSE <<>>

\* the AIS fields shared by prepare_vessel_insert and prepare_mmsi_update
AisFields(vessel_data) ==
       Opt(TruthyNum(Get(vessel_data, "latitude")),
           "ais_last_position_lat", Get(vessel_data, "latitude"))
    @@ Opt(TruthyNum(Get(vessel_data, "longitude")),
           "ais_last_position_lon", Get(vessel_data, "longitude"))
    @@ Opt(Get(vessel_data, "speed") # None, "ais_speed", Get(vessel_data, "speed"))
    @@ Opt(Get(vessel_data, "course") # None, "ais_course", Get(vessel_data, "course"))
    @@ Opt(TruthyStr(Get(vessel_data, "status")), "ais_status", Get(vessel_data, "status"))
    @@ Opt(TruthyStr(Get(vessel_data, "destination"))
             /\ Truncate(Strip(Val(Get(vessel_data, "destination"))), 250) # <<>>,
           "ais_destination",
           Some(Truncate(Strip(Val(Get(vessel_data, "destination"))), 250)))

\* prepare_vessel_update(mmsi, vessel_data, existing_record)
prepare_vessel_update(mmsi, vessel_data, existing_record) ==
    [fmt |-> "sql",
     name |-> Val(existing_record.name),
     set |->
           Opt(TruthyNum(Get(vessel_data, "latitude")),
               "ais_last_position_lat", Get(vessel_data, "latitude"))
        @@ Opt(TruthyNum(Get(vessel_data, "longitude")),
               "ais_last_position_lon", Get(vessel_data, "longitude"))
        @@ Opt(Get(vessel_data, "speed") # None, "ais_speed", Get(vessel_data, "speed"))
        @@ Opt(Get(vessel_data, "course") # None, "ais_course", Get(vessel_data, "course"))
        @@ Opt(TruthyStr(Get(vessel_data, "status")),
               "ais_status", Get(vessel_data, "status"))
        @@ Opt(TruthyStr(Get(vessel_data, "destination")),
               "ais_destination",
               Some(Truncate(Val(Get(vessel_data, "destination")), 250)))
        @@ Opt(/\ TruthyStr(Get(vessel_data, "vessel_name"))
               /\ \/ ~TruthyStr(existing_record.vessel_name)
                  \/ StartsWith(Val(existing_record.vessel_name), "Unknown Vessel "),
               "vessel_name",
               Some(Truncate(Strip(Val(Get(vessel_data, "vessel_name"))), 140)))
        @@ Opt(HasGenuineImo(vessel_data),
               "imo_number", Some(Str(Val(Get(vessel_data, "imo_number")))))]

\* variant: the suffix appended to the previous candidate, not to base_imo
RECURSIVE FreeAisImoChained(_, _, _, _)
FreeAisImoChained(reg, base_imo, imo_number, counter) ==
    IF ImoExists(reg, imo_number)
    THEN FreeAisImoChained(reg, base_imo, Suffixed(imo_number, counter), counter + 1)
    ELSE imo_number

\* the while loop of prepare_vessel_insert
RECURSIVE FreeAisImo(_, _, _, _)
FreeAisImo(reg, base_imo, imo_number, counter) ==
    IF ImoExists(reg, imo_number)
    THEN FreeAisImo(reg, base_imo, Suffixed(base_imo, counter), counter + 1)
    ELSE imo_number

\* the imo_number prepare_vessel_insert settles on
InsertImo(reg, mmsi, vessel_data) ==
    LET first == IF HasGenuineImo(vessel_data)
                 THEN LET proposed_imo == Str(Val(Get(vessel_data, "imo_number")))
                      IN  IF ~ImoExists(reg, proposed_imo)
                          THEN proposed_imo
                          ELSE AisImo(mmsi)
                 ELSE AisImo(mmsi)
    IN  IF StartsWith(first, "AIS-")
        THEN FreeAisImo(reg, first, first, 1)
        ELSE first

\* the vessel_name prepare_vessel_insert settles on
InsertVesselName(mmsi, vessel_data) ==
    LET raw == IF TruthyStr(Get(vessel_data, "vessel_name"))
               THEN Val(Get(vessel_data, "vessel_name")) ELSE <<>>
        stripped == IF raw # <<>> THEN Strip(raw) ELSE <<"Unknown Vessel ">> \o mmsi
    IN  IF stripped # <<>> THEN Truncate(stripped, 140)
        ELSE <<"Unknown Vessel ">> \o mmsi

\* prepare_vessel_insert(mmsi, vessel_data); hash is frappe.generate_hash()
prepare_vessel_insert(reg, mmsi, vessel_data, hash) ==
    [fmt |-> "insert",
     name |-> hash,
     set |->    ("name" :> Some(hash))
             @@ ("vessel_name" :> Some(InsertVesselName(mmsi, vessel_data)))
             @@ ("imo_number" :> Some(InsertImo(reg, mmsi, vessel_data)))
             @@ ("ais_mmsi" :> Some(mmsi))
             @@ AisFields(vessel_data)]

\* variant: the merge that refreshes the AIS fields but leaves ais_mmsi stale
prepare_mmsi_update_stale(mmsi, vessel_data, existing_record) ==
    [fmt |-> "data",
     name |-> Val(existing_record.name),
     set |-> AisFields(vessel_data)]

\* prepare_mmsi_update(mmsi, vessel_data, existing_record)
prepare_mmsi_update(mmsi, vessel_data, existing_record) ==
    [fmt |-> "data",
     name |-> Val(existing_record.name),
     set |->    ("ais_mmsi" :> Some(mmsi))
             @@ Opt(/\ TruthyStr(Get(vessel_data, "vessel_name"))
                    /\ Truncate(Strip(Val(Get(vessel_data, "vessel_name"))), 250) # <<>>
                    /\ Some(Truncate(Strip(Val(Get(vessel_data, "vessel_name"))), 250))
                         # existing_record.vessel_name,
                    "vessel_name",
                    Some(Truncate(Strip(Val(Get(vessel_data, "vessel_name"))), 250)))
             @@ AisFields(vessel_data)]

----------------------------------------------------------------------------
(* update_vessel_ais_batch: snapshot, plan, execute *)

\* str(vessel_data.get('mmsi'))
MmsiStr(vessel_data) ==
    IF Get(vessel_data, "mmsi") = None THEN <<"None">>
    ELSE Str(Val(Get(vessel_data, "mmsi")))

\* the columns the snapshot query selects
Selected(r) == [c \in {"name", "ais_mmsi", "vessel_name", "imo_number"} |-> r[c]]

\* variant: the snapshot query without its "OR imo_number IN" arm
ExistingRecordsByMmsiOnly(reg, vessels_data) ==
    LET idx == 1..Len(vessels_data)
        mmsi_list == {MmsiStr(vessels_data[i]) :
                        i \in {j \in idx : TruthyNum(Get(vessels_data[j], "mmsi"))}}
    IN  {Selected(r) : r \in {q \in reg :
             q.ais_mmsi # None /\ Val(q.ais_mmsi) \in mmsi_list}}

\* existing_records: rows whose ais_mmsi is in mmsi_list or whose imo_number
\* is in imo_numbers; nothing is fetched when mmsi_list is empty
ExistingRecords(reg, vessels_data) ==
    LET idx == 1..Len(vessels_data)
        mmsi_list == {MmsiStr(vessels_data[i]) :
                        i \in {j \in idx : TruthyNum(Get(vessels_data[j], "mmsi"))}}
        imo_numbers == {Str(Val(Get(vessels_data[i], "imo_number"))) :
                        i \in {j \in idx : HasGenuineImo(vessels_data[j])}}
    IN  IF mmsi_list = {} THEN {}
        ELSE {Selected(r) : r \in {q \in reg :
                 \/ q.ais_mmsi # None /\ Val(q.ais_mmsi) \in mmsi_list
                 \/ q.imo_number # None /\ Val(q.imo_number) \in imo_numbers}}

\* variant: the lookup keyed by the raw mmsi, which no string key equals
ByMmsiRawKey(records, mmsi) == None

\* existing_vessels.get(mmsi)
ByMmsi(records, mmsi) ==
    IF \E r \in records : r.ais_mmsi = Some(mmsi)
    THEN Some(CHOOSE r \in records : r.ais_mmsi = Some(mmsi))
    ELSE None

\* existing_vessels.get(f"IMO-{imo}"): only rows whose imo_number is set and
\* does not start with AIS- are indexed
ByImo(records, imo) ==
    LET indexed == {r \in records : /\ TruthyStr(r.imo_number)
                                     /\ ~StartsWith(Val(r.imo_number), "AIS-")
                                     /\ r.imo_number = Some(imo)}
    IN  IF indexed # {} THEN Some(CHOOSE r \in indexed : TRUE) ELSE None

\* frappe.generate_hash(): a name no row and no planned insert carries
FreshName(reg, inserts) ==
    LET used == {Val(r.name) : r \in reg} \cup {inserts[i].name : i \in 1..Len(inserts)}
    IN  CHOOSE n \in 1..(Cardinality(used) + 1) : n \notin used

\* one turn of the planning loop over vessels_data
PlanOne(reg, records, t, acc, vessel_data) ==
    LET mmsi == MmsiStr(vessel_data)
        by_mmsi == ByMmsi(records, mmsi)
        by_imo == IF by_mmsi = None /\ HasGenuineImo(vessel_data)
                  THEN ByImo(records, Str(Val(Get(vessel_data, "imo_number"))))
                  ELSE None
        gate == should_update_vessel(acc.cache, t, mmsi, vessel_data, by_mmsi)
        entry == [vessel_data |-> vessel_data,
                  existing |-> IF by_imo # None THEN by_imo ELSE by_mmsi,
                  last_update |-> CacheGet(acc.cache, CacheKey(mmsi))]
    IN  IF by_imo # None
        THEN LET op == prepare_mmsi_update(mmsi, vessel_data, Val(by_imo))
             IN  [acc EXCEPT !.updates = Append(@, op),
                             !.log = Append(@, entry @@ [kind |-> "IdentityMerge", gated |-> "not asked",
                                                  op |-> op])]
        ELSE IF ~gate.ok
        THEN [acc EXCEPT !.cache = gate.cache,
                         !.log = Append(@, entry @@ [kind |-> "Rejected", gated |-> "rejected",
                                    op |-> [fmt |-> "none", name |-> 0, set |-> <<>>]])]
        ELSE IF by_mmsi # None
        THEN LET op == prepare_vessel_update(mmsi, vessel_data, Val(by_mmsi))
             IN  [acc EXCEPT !.cache = gate.cache,
                             !.updates = Append(@, op),
                             !.log = Append(@, entry @@ [kind |-> "Update", gated |-> "accepted",
                                                  op |-> op])]
        ELSE LET op == prepare_vessel_insert(reg, mmsi, vessel_data,
                                             FreshName(reg, acc.inserts))
             IN  [acc EXCEPT !.cache = gate.cache,
                             !.inserts = Append(@, op),
                             !.log = Append(@, entry @@ [kind |-> "Insert", gated |-> "accepted",
                                                  op |-> op])]

RECURSIVE PlanFrom(_, _, _, _, _, _)
PlanFrom(reg, records, t, acc, vessels_data, i) ==
    IF i > Len(vessels_data) THEN acc
    ELSE PlanFrom(reg, records, t,
                  PlanOne(reg, records, t, acc, vessels_data[i]), vessels_data, i + 1)

\* the plan of a batch: the updates and inserts lists and the cache left
\* behind by the gate
Plan(reg, cache, t, vessels_data) ==
    PlanFrom(reg, ExistingRecords(reg, vessels_data), t,
             [cache |-> cache, updates |-> <<>>, inserts |-> <<>>, log |-> <<>>],
             vessels_data, 1)

\* execute_batch_updates: the statements in order; a statement the unique
\* index refuses raises, the group is rolled back and the error re-raised
RECURSIVE execute_batch_updates(_, _, _)
execute_batch_updates(reg, updates, i) ==
    IF i > Len(updates) THEN [ok |-> TRUE, reg |-> reg]
    ELSE LET op == updates[i]
         IN  IF /\ "imo_number" \in DOMAIN op.set
                /\ \E r \in reg : r.name = Some(op.name)
                /\ DuplicateImo(reg, op.name, op.set["imo_number"])
             THEN [ok |-> FALSE, reg |-> reg]
             ELSE execute_batch_updates(ApplySet(reg, op.name, op.set), updates, i + 1)

\* variant: the loop left at the first duplicate (break for continue)
RECURSIVE execute_batch_inserts_break(_, _, _, _)
execute_batch_inserts_break(reg, inserts, i, skipped) ==
    IF i > Len(inserts) THEN [reg |-> reg, skipped |-> skipped]
    ELSE LET op == inserts[i]
         IN  IF DuplicateImo(reg, op.name, op.set["imo_number"])
             THEN [reg |-> reg, skipped |-> skipped \cup {op.name}]
             ELSE execute_batch_inserts_break(reg \cup {Row(op.set)}, inserts, i + 1, skipped)

\* execute_batch_inserts: the statements in order; an insert refused for a
\* duplicate imo_number is skipped, the others are committed
RECURSIVE execute_batch_inserts(_, _, _, _)
execute_batch_inserts(reg, inserts, i, skipped) ==
    IF i > Len(inserts) THEN [reg |-> reg, skipped |-> skipped]
    ELSE LET op == inserts[i]
         IN  IF DuplicateImo(reg, op.name, op.set["imo_number"])
             THEN execute_batch_inserts(reg, inserts, i + 1, skipped \cup {op.name})
             ELSE execute_batch_inserts(reg \cup {Row(op.set)}, inserts, i + 1, skipped)

\* what a run of update_vessel_ais_batch does to the table, and its answer
RunBatch(reg, cache, t, vessels_data) ==
    LET plan == Plan(reg, cache, t, vessels_data)
        upd == execute_batch_updates(reg, plan.updates, 1)
        ins == execute_batch_inserts(upd.reg, plan.inserts, 1, {})
    IN  IF Len(vessels_data) = 0
        THEN [reg |-> reg, cache |-> cache, log |-> <<>>, updates |-> "none",
              inserts |-> "none", skipped |-> {},
              status |-> "success", updated |-> 0]
        ELSE IF plan.updates # <<>> /\ ~upd.ok
        THEN [reg |-> reg, cache |-> plan.cache, log |-> plan.log,
              updates |-> "rolled back",
              inserts |-> IF plan.inserts # <<>> THEN "not run" ELSE "none",
              skipped |-> {},
              status |-> "error", updated |-> 0]
        ELSE [reg |-> ins.reg, cache |-> plan.cache, log |-> plan.log,
              updates |-> IF plan.updates # <<>> THEN "committed" ELSE "none",
              inserts |-> IF plan.inserts # <<>> THEN "committed" ELSE "none",
              skipped |-> ins.skipped,
              status |-> "success",
              updated |-> Len(plan.updates) + Len(plan.inserts)]

----------------------------------------------------------------------------
(* MessageNormalizer and BatchAggregator: process_ais_message *)

\* a or b on optional numbers
OrNum(a, b) == IF TruthyNum(a) THEN a ELSE b
\* a or b on optional strings
OrStr(a, b) == IF TruthyStr(a) THEN a ELSE b

\* d.get(k, {})
GetDict(d, k) == IF k \in DOMAIN d THEN d[k] ELSE <<>>

\* get_navigation_status(position.get('NavigationalStatus', 15))
get_navigation_status(position) ==
    LET status_code == IF "NavigationalStatus" \in DOMAIN position
                       THEN position["NavigationalStatus"] ELSE Some(15)
        status_map == (0 :> "Under way using engine") @@ (1 :> "At anchor")
                   @@ (2 :> "Not under command") @@ (3 :> "Restricted manoeuvrability")
                   @@ (4 :> "Constrained by her draught") @@ (5 :> "Moored")
                   @@ (6 :> "Aground") @@ (7 :> "Engaged in Fishing")
                   @@ (8 :> "Under way sailing") @@ (15 :> "Default")
    IN  IF status_code # None /\ Val(status_code) \in DOMAIN status_map
        THEN Some(<<status_map[Val(status_code)]>>)
        ELSE Some(<<"Unknown">>)

\* get_vessel_type(static.get('Type', 0))
get_vessel_type(static) ==
    LET type_code == IF "Type" \in DOMAIN static THEN Val(static["Type"]) ELSE 0
    IN  IF 30 <= type_code /\ type_code <= 32 THEN Some(<<"Fishing">>)
        ELSE IF 60 <= type_code /\ type_code <= 69 THEN Some(<<"Passenger">>)
        ELSE IF 70 <= type_code /\ type_code <= 79 THEN Some(<<"Cargo">>)
        ELSE IF 80 <= type_code /\ type_code <= 89 THEN Some(<<"Tanker">>)
        ELSE Some(<<"Other">>)

\* the vessel_data dict process_ais_message builds from a message
Normalize(message_data) ==
    LET metadata == GetDict(message_data, "MetaData")
        position == GetDict(GetDict(message_data, "Message"), "PositionReport")
        static == GetDict(GetDict(message_data, "Message"), "ShipStaticData")
    IN  IF Get(message_data, "MessageType") = Some(<<"PositionReport">>)
        THEN [mmsi |-> OrNum(Get(position, "UserID"), Get(metadata, "MMSI")),
              latitude |-> OrNum(Get(position, "Latitude"), Get(metadata, "latitude")),
              longitude |-> OrNum(Get(position, "Longitude"), Get(metadata, "longitude")),
              speed |-> Get(position, "Sog"),
              course |-> Get(position, "Cog"),
              status |-> get_navigation_status(position),
              vessel_name |-> Get(metadata, "ShipName")]
        ELSE IF Get(message_data, "MessageType") = Some(<<"ShipStaticData">>)
        THEN    Opt(TruthyNum(Get(metadata, "latitude")) /\ TruthyNum(Get(metadata, "longitude")),
                    "latitude", Get(metadata, "latitude"))
             @@ Opt(TruthyNum(Get(metadata, "latitude")) /\ TruthyNum(Get(metadata, "longitude")),
                    "longitude", Get(metadata, "longitude"))
             @@ [mmsi |-> OrNum(Get(static, "UserID"), Get(metadata, "MMSI")),
                 vessel_name |-> OrStr(Get(static, "Name"), Get(metadata, "ShipName")),
                 destination |-> Get(static, "Destination"),
                 call_sign |-> Get(static, "CallSign"),
                 imo_number |-> Get(static, "ImoNumber"),
                 vessel_type |-> get_vessel_type(static)]
        ELSE <<>>

\* old.update(new): every key of new, None included, replaces the old value
DictUpdate(old, new) ==
    [k \in DOMAIN old \cup DOMAIN new |-> IF k \in DOMAIN new THEN new[k] ELSE old[k]]

\* variant: the flush test without the key count
FlushDueByTimeOnly(t, last_flush, queued) == t - last_flush > FLUSH_SECONDS

\* the flush test of process_ais_message, made after the merge
FlushDue(t, last_flush, queued) ==
    \/ t - last_flush > FLUSH_SECONDS
    \/ Cardinality(DOMAIN queued) >= FLUSH_KEYS

\* update_queue[mmsi].update(vessel_data) on the defaultdict
Enqueue(queue, mmsi, vessel_data) ==
    LET old == IF mmsi \in DOMAIN queue THEN queue[mmsi] ELSE <<>>
    IN  [m \in DOMAIN queue \cup {mmsi} |->
            IF m = mmsi THEN DictUpdate(old, vessel_data) ELSE queue[m]]

\* variant: the list taken after update_queue.clear()
QueueValuesAfterClear(queue, order) == <<>>

\* list(update_queue.values()): the pending dicts in the order of their keys'
\* first arrival, which order names
RECURSIVE QueueValues(_, _)
QueueValues(queue, order) ==
    IF order = <<>> THEN <<>>
    ELSE <<queue[Head(order)]>> \o QueueValues(queue, Tail(order))

\* the reference merge of the data model: a field keeps its last non-null value
AdditiveUnion(old, new) ==
    [k \in DOMAIN old \cup DOMAIN new |->
        IF k \in DOMAIN new /\ new[k] # None THEN new[k]
        ELSE IF k \in DOMAIN old THEN old[k] ELSE None]

----------------------------------------------------------------------------
(* StreamClient: AISStreamWorker.connect_ais_stream *)

BACKOFF_SECONDS == 5

\* AISStreamWorker.__init__, and the counters the properties read: attempts
\* and conn count the connections tried and opened, handshakes the calls of
\* websocket.send; subscribed, delivered, erred (a frame raised) and resumed
\* (a frame was handled after one raised) belong to the connection in hand;
\* ended is the time the last connection or attempt ended
WorkerInit ==
    [pc |-> "while", should_stop |-> FALSE, attempts |-> 0, conn |-> 0,
     handshakes |-> 0, subscribed |-> 0, delivered |-> 0, erred |-> FALSE,
     resumed |-> FALSE, ended |-> None, cause |-> "none", frame |-> None]

\* the outer except clause: log, and sleep unless should_stop
on_connection_error(w, t, cause) ==
    [w EXCEPT !.pc = IF w.should_stop THEN "while" ELSE "sleep",
              !.ended = Some(t), !.cause = cause, !.frame = None]

\* the async for ends without an exception (the server closed the stream
\* normally), or the loop is left by break: the with block closes the
\* connection and control is back at the while test
on_iteration_end(w, t, cause) ==
    [w EXCEPT !.pc = "while", !.ended = Some(t), !.cause = cause, !.frame = None]

\* variant: the handshake left out
send_subscribe_skipped(w) == [w EXCEPT !.pc = "receive"]

\* await websocket.send(subscribe_message_json), when it succeeds
send_subscribe(w) ==
    [w EXCEPT !.pc = "receive", !.handshakes = @ + 1, !.subscribed = @ + 1]

\* variant: no inner try, the error of a frame reaches the outer except clause
on_message_error_uncaught(w, t) == on_connection_error(w, t, "frame error")

\* the inner except clause: log, and on to the next frame
on_message_error(w, t) ==
    [w EXCEPT !.pc = "receive", !.erred = TRUE, !.frame = None]

\* a frame handled to the end of the try block
on_message_done(w) ==
    [w EXCEPT !.pc = "receive", !.frame = None,
              !.resumed = @ \/ w.erred]

----------------------------------------------------------------------------
(* Inputs *)

\* a merged queue entry for mmsi m: position pos (or None), IMO imo (or None)
VesselData(m, pos, imo) ==
    [mmsi |-> Some(m),
     latitude |-> IF pos = None THEN None ELSE Some(pos[1]),
     longitude |-> IF pos = None THEN None ELSE Some(pos[2]),
     speed |-> None, course |-> None, status |-> Some(<<"Default">>),
     vessel_name |-> None, destination |-> None, call_sign |-> None,
     imo_number |-> imo, vessel_type |-> Some(<<"Other">>)]

VesselDatas(mmsis, positions, imos) ==
    {VesselData(m, pos, imo) :
        m \in mmsis, pos \in {None} \cup positions, imo \in {None} \cup {Some(n) : n \in imos}}

\* the batches a flush can hand over: one entry per mmsi, in queue order
BatchesOf(datas) ==
    {b \in UNION {[1..n -> datas] : n \in 1..MaxBatch} :
        \A i, j \in 1..Len(b) : i # j => b[i].mmsi # b[j].mmsi}

\* the processes that call start_ais_stream_if_needed: the scheduler's tick
\* and the install hook
Callers == {"scheduler", "after_install"}

\* the background workers that serve the queue of update_vessel_ais_batch
Workers == {"w1", "w2"}

NearOrigin == <<5, 5>>
AtSea == <<215000, 392000>>

\* the genuine IMO numbers the static-data messages carry
Imos == {7}

\* identity resolution: two vessels, one IMO number, no positions
Batches == BatchesOf(VesselDatas({1, 2}, {}, Imos))
\* the change gate: one vessel, positions within and beyond the threshold
GateBatches == BatchesOf(VesselDatas({1}, {NearOrigin, AtSea}, {}))
\* batch execution: every flush carries all three vessels, in the order of their mmsi
ExecBatches ==
    {b \in BatchesOf(VesselDatas({1, 2, 3}, {}, Imos)) :
        /\ Len(b) = 3
        /\ \A i, j \in 1..Len(b) : i < j => Val(b[i].mmsi) < Val(b[j].mmsi)}

----------------------------------------------------------------------------
(* The state machine *)

\* no RQ job, no call of start_ais_stream_if_needed under way
RqInit == [job |-> <<>>, call |-> [c \in Callers |-> [pc |-> "idle", existing_jobs |-> {}]],
           calls |-> 0]

\* the background workers at rest, their module globals as imported
RunningInit == [w \in Workers |-> [vessel_cache |-> <<>>, plan |-> None]]

NoRun == [time |-> 0, pre |-> {}, cache |-> <<>>, log |-> <<>>, updates |-> "none", inserts |-> "none",
          skipped |-> {}, status |-> "none", updated |-> 0]

Init ==
    /\ registry = {}
    /\ vessel_cache = <<>>
    /\ update_queue = [pending |-> <<>>, order |-> <<>>]
    /\ last_batch_time = 10
    /\ jobs = <<>>
    /\ now = 10
    /\ window = <<>>
    /\ last = NoRun
    /\ prev = NoRun
    /\ sent = {}
    /\ worker = WorkerInit
    /\ rq = RqInit
    /\ running = RunningInit

\* a background worker runs update_vessel_ais_batch(vessels_data)
UpdateVesselAisBatch(vessels_data) ==
    LET run == RunBatch(registry, vessel_cache, now, vessels_data)
    IN  /\ registry' = run.reg
        /\ vessel_cache' = run.cache
        /\ last' = [time |-> now, pre |-> registry, cache |-> run.cache, log |-> run.log,
                    updates |-> run.updates, inserts |-> run.inserts,
                    skipped |-> run.skipped, status |-> run.status,
                    updated |-> run.updated]
        /\ UNCHANGED <<update_queue, last_batch_time, jobs, now, window, sent, worker, rq, running>>

\* time passes
Tick(d) ==
    /\ now + d <= MaxTime
    /\ now' = now + d
    /\ UNCHANGED <<registry, vessel_cache, update_queue, last_batch_time, jobs, window, last, prev,
                   sent, worker, rq, running>>

\* the worker process restarts: the module globals start again empty
Restart ==
    /\ vessel_cache # <<>>
    /\ vessel_cache' = <<>>
    /\ UNCHANGED <<registry, update_queue, last_batch_time, jobs, now, window, last, prev,
                   sent, worker, rq, running>>

Next ==
    \/ \E b \in Batches : UpdateVesselAisBatch(b) /\ UNCHANGED prev
    \/ Tick(30)

Spec == Init /\ [][Next]_vars

NextGate ==
    \/ \E b \in GateBatches : UpdateVesselAisBatch(b) /\ prev' = last
    \/ \E d \in {10, 20} : Tick(d)
    \/ Restart

SpecGate == Init /\ [][NextGate]_vars

\* the gate over minutes: one vessel reporting no position, a position near
\* the origin or a position at sea, with pauses inside and beyond the
\* refresh period
RefreshBatches == BatchesOf(VesselDatas({1}, {NearOrigin, AtSea}, {}))

\* a pause of d seconds between two flushes
Idle(d) ==
    /\ now + d <= MaxIdle
    /\ now' = now + d
    /\ UNCHANGED <<registry, vessel_cache, update_queue, last_batch_time, jobs, window, last, prev,
                   sent, worker, rq, running>>

NextRefresh ==
    \/ \E b \in RefreshBatches : UpdateVesselAisBatch(b) /\ UNCHANGED prev
    \/ \E d \in {100, FORCE_UPDATE_SECONDS + 1} : Idle(d)
    \/ Restart

SpecRefresh == Init /\ [][NextRefresh]_vars

\* rows left behind under synthetic or genuine identifiers whose ais_mmsi was
\* since cleared: the registries prepare_vessel_insert is tried against
SeedRows ==
    {Row(("name" :> Some(k)) @@ ("imo_number" :> Some(imo))) :
        <<k, imo>> \in {<<1, Str(7)>>, <<2, AisImo(Str(1))>>,
                        <<3, Suffixed(AisImo(Str(1)), 1)>>,
                        <<4, Suffixed(AisImo(Str(1)), 2)>>,
                        <<5, AisImo(Str(2))>>}}

InitInsert ==
    /\ registry \in SUBSET SeedRows
    /\ vessel_cache = <<>>
    /\ update_queue = [pending |-> <<>>, order |-> <<>>]
    /\ last_batch_time = 10
    /\ jobs = <<>>
    /\ now = 10
    /\ window = <<>>
    /\ last = NoRun
    /\ prev = NoRun
    /\ sent = {}
    /\ worker = WorkerInit
    /\ rq = RqInit
    /\ running = RunningInit

\* prepare_vessel_insert(mmsi, vessel_data) on its own, against the registry
PrepareVesselInsert(vessel_data) ==
    LET mmsi == MmsiStr(vessel_data)
        op == prepare_vessel_insert(registry, mmsi, vessel_data, FreshName(registry, <<>>))
    IN  /\ last' = [NoRun EXCEPT !.time = now, !.pre = registry,
                                 !.log = <<[vessel_data |-> vessel_data, existing |-> None,
                                            last_update |-> None, gated |-> "not asked",
                                            kind |-> "Insert",
                                            op |-> op]>>]
        /\ UNCHANGED <<registry, vessel_cache, update_queue, last_batch_time, jobs, now,
                       window, prev, sent, worker, rq, running>>

NextInsert == \E d \in VesselDatas({1, 2}, {}, Imos) : PrepareVesselInsert(d)

SpecInsert == InitInsert /\ [][NextInsert]_vars

\* the frames of the feed: position reports of vessel 1 with or without a
\* position and a ShipName, its static data with or without a Name and an
\* ImoNumber, a bare position report of vessel 2, and a frame of a type the
\* engine ignores
PositionFrame(m, pos, name) ==
    [MessageType |-> Some(<<"PositionReport">>),
     Message |-> ("PositionReport" :> (("UserID" :> Some(m)) @@ pos)),
     MetaData |-> name]

StaticFrame(m, name, imo) ==
    [MessageType |-> Some(<<"ShipStaticData">>),
     Message |-> ("ShipStaticData" :> (("UserID" :> Some(m)) @@ name @@ imo)),
     MetaData |-> <<>>]

Messages ==
    {PositionFrame(1, pos, name) :
        pos \in {<<>>, [Latitude |-> Some(AtSea[1]), Longitude |-> Some(AtSea[2])]},
        name \in {<<>>, [ShipName |-> Some(<<"N">>)]}}
    \cup
    {StaticFrame(1, name, imo) :
        name \in {<<>>, [Name |-> Some(<<"M">>)]},
        imo \in {<<>>, [ImoNumber |-> Some(7)]}}
    \cup
    {PositionFrame(2, <<>>, <<>>),
     [MessageType |-> Some(<<"StandardClassBPositionReport">>),
      Message |-> <<>>, MetaData |-> [MMSI |-> Some(1)]]}

\* process_ais_message(message_data): normalize, merge into the queue, and
\* flush through process_batch_queue when the flush is due
ProcessAisMessage(message_data) ==
    LET vessel_data == Normalize(message_data)
        mmsi == MmsiStr(vessel_data)
        queued == Enqueue(update_queue.pending, mmsi, vessel_data)
        order == IF mmsi \in DOMAIN update_queue.pending THEN update_queue.order
                 ELSE Append(update_queue.order, mmsi)
        due == FlushDue(now, last_batch_time, queued)
    IN  IF ~TruthyNum(Get(vessel_data, "mmsi"))
        THEN UNCHANGED <<registry, vessel_cache, update_queue, last_batch_time, jobs, now,
                         window, last, prev, sent>>
        ELSE /\ update_queue' = IF due THEN [pending |-> <<>>, order |-> <<>>]
                                ELSE [pending |-> queued, order |-> order]
             /\ jobs' = IF due THEN Append(jobs, QueueValues(queued, order)) ELSE jobs
             /\ last_batch_time' = IF due THEN now ELSE last_batch_time
             /\ window' = IF due THEN <<>>
                          ELSE [m \in DOMAIN queued |->
                                  IF m = mmsi
                                  THEN AdditiveUnion(IF m \in DOMAIN window THEN window[m]
                                                     ELSE <<>>, vessel_data)
                                  ELSE window[m]]
             /\ sent' = sent \cup {<<mmsi, DOMAIN vessel_data>>}
             /\ UNCHANGED <<registry, vessel_cache, now, last, prev>>

NextAgg ==
    \/ \E m \in Messages : ProcessAisMessage(m) /\ UNCHANGED <<worker, rq, running>>
    \/ Tick(40)

SpecAgg == Init /\ [][NextAgg]_vars

\* the gate on a cache that is nearly full: one entry short of MAX_CACHE_SIZE,
\* written by earlier batches at two instants
InitCache ==
    /\ registry = {}
    /\ vessel_cache = [i \in 1..(MAX_CACHE_SIZE - 1) |->
                          <<CacheKey(Str(i)), IF i % 2 = 1 THEN 10 ELSE 20>>]
    /\ update_queue = [pending |-> <<>>, order |-> <<>>]
    /\ last_batch_time = 20
    /\ jobs = <<>>
    /\ now = 20
    /\ window = <<>>
    /\ last = NoRun
    /\ prev = NoRun
    /\ sent = {}
    /\ worker = WorkerInit
    /\ rq = RqInit
    /\ running = RunningInit

\* the vessels the gate is asked about: one in the cache, three not yet in it
GateMmsis == {1, MAX_CACHE_SIZE, MAX_CACHE_SIZE + 1, MAX_CACHE_SIZE + 2}

\* the row of the snapshot query for a vessel
SnapshotRow(m) ==
    [name |-> Some(m), ais_mmsi |-> Some(Str(m)), vessel_name |-> None,
     imo_number |-> Some(AisImo(Str(m)))]

\* should_update_vessel(mmsi, new_data, existing_record) on the module's cache
ShouldUpdateVessel(m, existing_record) ==
    LET gate == should_update_vessel(vessel_cache, now, Str(m),
                                     VesselData(m, None, None), existing_record)
    IN  /\ vessel_cache' = gate.cache
        /\ UNCHANGED <<registry, update_queue, last_batch_time, jobs, now, window,
                       last, prev, sent, worker, rq, running>>

NextCache ==
    \/ \E m \in GateMmsis : \E known \in BOOLEAN :
          ShouldUpdateVessel(m, IF known THEN Some(SnapshotRow(m)) ELSE None)
    \/ Tick(30)

SpecCache == InitCache /\ [][NextCache]_vars

\* a burst: position reports of vessels 3 to FLUSH_KEYS, merged since the last
\* flush, leave the queue two keys short of the cap
BurstMmsis == 3..FLUSH_KEYS

InitFlush ==
    /\ registry = {}
    /\ vessel_cache = <<>>
    /\ update_queue = [pending |-> [m \in {Str(i) : i \in BurstMmsis} |->
                                      Normalize(PositionFrame(
                                          CHOOSE i \in BurstMmsis : Str(i) = m, <<>>, <<>>))],
                       order |-> [i \in 1..(FLUSH_KEYS - 2) |-> Str(i + 2)]]
    /\ last_batch_time = 10
    /\ jobs = <<>>
    /\ now = 10
    /\ window = update_queue.pending
    /\ last = NoRun
    /\ prev = NoRun
    /\ sent = {<<m, DOMAIN update_queue.pending[m]>> : m \in DOMAIN update_queue.pending}
    /\ worker = WorkerInit
    /\ rq = RqInit
    /\ running = RunningInit

\* the frames that follow the burst
FlushMessages ==
    {PositionFrame(1, <<>>, <<>>), PositionFrame(2, <<>>, <<>>),
     StaticFrame(1, [Name |-> Some(<<"M">>)], <<>>)}

NextFlush ==
    \/ \E m \in FlushMessages : ProcessAisMessage(m) /\ UNCHANGED <<worker, rq, running>>
    \/ Tick(20)

SpecFlush == InitFlush /\ [][NextFlush]_vars

\* what the steps of the stream worker leave alone unless a frame is processed
aggregator == <<registry, vessel_cache, update_queue, last_batch_time, jobs, now, window,
                last, prev, sent>>

\* the frames of a connection: text that is not JSON, a frame on which
\* frappe.call raises, and frames whose realtime broadcast succeeds or raises
WorkerMessages ==
    {PositionFrame(1, <<>>, [ShipName |-> Some(<<"N">>)]),
     StaticFrame(1, [Name |-> Some(<<"M">>)], <<>>)}

Frames ==
    {[json |-> FALSE, call |-> TRUE, data |-> <<>>, publish |-> TRUE],
     [json |-> TRUE, call |-> FALSE, data |-> <<>>, publish |-> TRUE]}
    \cup {[json |-> TRUE, call |-> TRUE, data |-> m, publish |-> ok] :
            m \in WorkerMessages, ok \in BOOLEAN}

\* while not self.should_stop
WhileTest ==
    /\ worker.pc = "while"
    /\ IF worker.should_stop
       THEN worker' = [worker EXCEPT !.pc = "stopped"]
       ELSE /\ worker.attempts < MaxAttempts
            /\ worker' = [worker EXCEPT !.pc = "connect", !.attempts = @ + 1]
    /\ UNCHANGED <<aggregator, rq, running>>

\* websockets.connect(...) opens the stream or raises
Connect(opened) ==
    /\ worker.pc = "connect"
    /\ worker' = IF opened
                 THEN [worker EXCEPT !.pc = "subscribe", !.conn = @ + 1, !.subscribed = 0,
                                     !.delivered = 0, !.erred = FALSE, !.resumed = FALSE]
                 ELSE on_connection_error(worker, now, "connect failed")
    /\ UNCHANGED <<aggregator, rq, running>>

\* await websocket.send(subscribe_message_json) returns or raises
Subscribe(ok) ==
    /\ worker.pc = "subscribe"
    /\ worker' = IF ok THEN send_subscribe(worker)
                 ELSE on_connection_error(send_subscribe(worker), now, "handshake failed")
    /\ UNCHANGED <<aggregator, rq, running>>

\* async for message_json in websocket: the next frame arrives
FrameArrives(f) ==
    /\ worker.pc = "receive"
    /\ worker.delivered < MaxFrames
    /\ worker' = [worker EXCEPT !.pc = "message", !.frame = Some(f), !.delivered = @ + 1]
    /\ UNCHANGED <<aggregator, rq, running>>

\* the connection is lost while the worker waits: ConnectionClosedError
ConnectionDropped ==
    /\ worker.pc = "receive"
    /\ worker' = on_connection_error(worker, now, "dropped")
    /\ UNCHANGED <<aggregator, rq, running>>

\* the server closes the stream normally while the worker waits: the
\* iteration ends without an exception
ConnectionClosed ==
    /\ worker.pc = "receive"
    /\ worker' = on_iteration_end(worker, now, "closed")
    /\ UNCHANGED <<aggregator, rq, running>>

\* the body of the async for, on the frame in hand
Message ==
    /\ worker.pc = "message"
    /\ LET f == Val(worker.frame)
       IN  IF worker.should_stop
           THEN /\ worker' = on_iteration_end(worker, now, "stopped")
                /\ UNCHANGED <<aggregator, rq, running>>
           ELSE IF ~f.json \/ ~f.call
           THEN /\ worker' = on_message_error(worker, now)
                /\ UNCHANGED <<aggregator, rq, running>>
           ELSE /\ ProcessAisMessage(f.data)
                /\ worker' = IF f.publish THEN on_message_done(worker)
                             ELSE on_message_error(worker, now)
                /\ UNCHANGED <<rq, running>>

\* await asyncio.sleep(5)
Sleep ==
    /\ worker.pc = "sleep"
    /\ now + BACKOFF_SECONDS <= MaxTime
    /\ now' = now + BACKOFF_SECONDS
    /\ worker' = [worker EXCEPT !.pc = "while"]
    /\ UNCHANGED <<registry, vessel_cache, update_queue, last_batch_time, jobs, window,
                   last, prev, sent, rq, running>>

\* handle_signal: SIGTERM or SIGINT
HandleSignal ==
    /\ ~worker.should_stop
    /\ worker.pc # "stopped"
    /\ worker' = [worker EXCEPT !.should_stop = TRUE]
    /\ UNCHANGED <<aggregator, rq, running>>

\* time passes; the clock keeps room for the sleeps of the attempts to come
WorkerTick ==
    /\ now + 20 + MaxAttempts * BACKOFF_SECONDS <= MaxTime
    /\ Tick(20)

NextWorker ==
    \/ WhileTest
    \/ \E opened \in BOOLEAN : Connect(opened)
    \/ \E ok \in BOOLEAN : Subscribe(ok)
    \/ \E f \in Frames : FrameArrives(f)
    \/ ConnectionDropped
    \/ ConnectionClosed
    \/ Message
    \/ Sleep
    \/ HandleSignal
    \/ WorkerTick

SpecWorker == Init /\ [][NextWorker]_vars

\* the worker's own steps are taken when they can be; the feed owes nothing:
\* no frame, drop or close need ever come
SpecWorkerFair ==
    /\ SpecWorker
    /\ WF_vars(WhileTest)
    /\ WF_vars(\E opened \in BOOLEAN : Connect(opened))
    /\ WF_vars(\E ok \in BOOLEAN : Subscribe(ok))
    /\ WF_vars(Message)
    /\ WF_vars(Sleep)

\* the RQ jobs named ais_stream_worker whose status is started or queued
ActiveJobs(job) == {j \in 1..Len(job) : job[j] \in {"started", "queued"}}

\* a caller enters start_ais_stream_if_needed
Call(c) ==
    /\ rq.call[c].pc = "idle"
    /\ rq.calls < MaxCalls
    /\ rq' = [rq EXCEPT !.call[c].pc = "get_all", !.calls = @ + 1]
    /\ UNCHANGED <<aggregator, worker, running>>

\* existing_jobs = frappe.get_all("RQ Job", filters={...})
GetAll(c) ==
    /\ rq.call[c].pc = "get_all"
    /\ rq' = [rq EXCEPT !.call[c] = [pc |-> "if", existing_jobs |-> ActiveJobs(rq.job)]]
    /\ UNCHANGED <<aggregator, worker, running>>

\* if not existing_jobs: enqueue(..., job_name='ais_stream_worker'); the
\* call returns either way
EnqueueIfNone(c) ==
    /\ rq.call[c].pc = "if"
    /\ rq' = [rq EXCEPT !.call[c] = [pc |-> "idle", existing_jobs |-> {}],
                        !.job = IF rq.call[c].existing_jobs = {}
                                THEN Append(@, "queued") ELSE @]
    /\ UNCHANGED <<aggregator, worker, running>>

\* an RQ worker of the long queue takes a queued job
JobStarts(j) ==
    /\ rq.job[j] = "queued"
    /\ rq' = [rq EXCEPT !.job[j] = "started"]
    /\ UNCHANGED <<aggregator, worker, running>>

\* run_ais_stream returns: the job is finished
JobEnds(j) ==
    /\ rq.job[j] = "started"
    /\ rq' = [rq EXCEPT !.job[j] = "finished"]
    /\ UNCHANGED <<aggregator, worker, running>>

NextStart ==
    \/ \E c \in Callers : Call(c) \/ GetAll(c) \/ EnqueueIfNone(c)
    \/ \E j \in 1..Len(rq.job) : JobStarts(j) \/ JobEnds(j)

SpecStart == Init /\ [][NextStart]_vars

\* two flushes of one vessel, one before and one after its static data arrived
ConcBatches == BatchesOf(VesselDatas({1}, {}, Imos))

\* frappe.generate_hash() across workers: the names the other workers drew
\* for inserts not yet executed, held as rows with no column set so that no
\* query finds them
DrawnNames(w) ==
    UNION {{Row([name |-> Some(Val(running[v].plan).inserts[i].name)]) :
               i \in 1..Len(Val(running[v].plan).inserts)} :
           v \in {u \in Workers \ {w} : running[u].plan # None}}

\* a background worker takes update_vessel_ais_batch(vessels_data) off the
\* queue: the snapshot query and the planning loop, on its own vessel_cache
BeginBatch(w, vessels_data) ==
    LET plan == Plan(registry \cup DrawnNames(w), running[w].vessel_cache, now, vessels_data)
    IN  /\ running[w].plan = None
        /\ running' = [running EXCEPT ![w] = [vessel_cache |-> plan.cache,
                                              plan |-> Some(plan)]]
        /\ UNCHANGED <<aggregator, worker, rq>>

\* the worker executes what it planned: the update group, then, unless the
\* update group raised, the insert group
EndBatch(w) ==
    /\ running[w].plan # None
    /\ LET plan == Val(running[w].plan)
           upd == execute_batch_updates(registry, plan.updates, 1)
           ins == execute_batch_inserts(upd.reg, plan.inserts, 1, {})
       IN  registry' = IF plan.updates # <<>> /\ ~upd.ok THEN registry ELSE ins.reg
    /\ running' = [running EXCEPT ![w].plan = None]
    /\ UNCHANGED <<vessel_cache, update_queue, last_batch_time, jobs, now, window, last, prev,
                   sent, worker, rq>>

NextConc ==
    \/ \E w \in Workers : \E b \in ConcBatches : BeginBatch(w, b)
    \/ \E w \in Workers : EndBatch(w)
    \/ Tick(30)

SpecConc == Init /\ [][NextConc]_vars

NextExec ==
    \/ \E b \in ExecBatches : UpdateVesselAisBatch(b) /\ UNCHANGED prev
    \/ Tick(30)

SpecExec == Init /\ [][NextExec]_vars

----------------------------------------------------------------------------
(* Identity resolution *)

\* C4: every update of a batch resolves by the precedence mmsi match, then
\* genuine-IMO match, then insert: an update whose mmsi a row carries is an
\* Update of that row (or is rejected by the gate) even when its IMO is held by
\* another row; otherwise an update whose genuine IMO a row holds is an
\* IdentityMerge on that row; otherwise it is an Insert; and each update is
\* resolved exactly once.
C4_MatchingPrecedence ==
    \A i \in 1..Len(last.log) :
        LET e == last.log[i]
            mmsi == MmsiStr(e.vessel_data)
            by_mmsi == {r \in last.pre : r.ais_mmsi = Some(mmsi)}
            by_imo == {r \in last.pre :
                         /\ HasGenuineImo(e.vessel_data)
                         /\ r.imo_number = Some(Str(Val(e.vessel_data.imo_number)))}
        IN  /\ by_mmsi # {} =>
                /\ e.kind \in {"Update", "Rejected"}
                /\ e.kind = "Update" =>
                      e.op.fmt = "sql" /\ \E r \in by_mmsi : r.name = Some(e.op.name)
            /\ by_mmsi = {} /\ by_imo # {} =>
                /\ e.kind = "IdentityMerge"
                /\ e.op.fmt = "data" /\ \E r \in by_imo : r.name = Some(e.op.name)
            /\ by_mmsi = {} /\ by_imo = {} =>
                /\ e.kind = "Insert"
                /\ e.op.fmt = "insert" /\ \A r \in last.pre : r.name # Some(e.op.name)

\* C4 witness: an update was resolved to an Update of the row carrying its
\* mmsi although its genuine IMO is held by a different row.
C4_Witness ==
    \E i \in 1..Len(last.log) :
        /\ last.log[i].kind = "Update"
        /\ HasGenuineImo(last.log[i].vessel_data)
        /\ \E r \in last.pre :
              /\ r.name # Some(last.log[i].op.name)
              /\ r.imo_number = Some(Str(Val(last.log[i].vessel_data.imo_number)))


\* C5 as stated: an update whose mmsi no row carries and whose genuine IMO a
\* row already holds is inserted as a new row with the synthetic IMO
\* AIS-<mmsi>, and the existing rows are left as they were.
C5_ConflictYieldsInsert ==
    \A i \in 1..Len(last.log) :
        LET e == last.log[i]
            mmsi == MmsiStr(e.vessel_data)
        IN  (/\ HasGenuineImo(e.vessel_data)
             /\ \E r \in last.pre :
                   r.imo_number = Some(Str(Val(e.vessel_data.imo_number)))
             /\ \A r \in last.pre : r.ais_mmsi # Some(mmsi))
            => /\ e.kind = "Insert"
               /\ e.op.set["imo_number"] = Some(AisImo(mmsi))
               /\ last.pre \subseteq registry

\* C5 amended: such an update is not inserted; it is resolved as an
\* IdentityMerge on the row holding the IMO, which sets that row's ais_mmsi
\* to the update's mmsi and leaves its imo_number alone; no row is added for
\* the update and no synthetic IMO is assigned.
C5_ConflictYieldsMerge ==
    \A i \in 1..Len(last.log) :
        LET e == last.log[i]
            mmsi == MmsiStr(e.vessel_data)
        IN  (/\ HasGenuineImo(e.vessel_data)
             /\ \E r \in last.pre :
                   r.imo_number = Some(Str(Val(e.vessel_data.imo_number)))
             /\ \A r \in last.pre : r.ais_mmsi # Some(mmsi))
            => /\ e.kind = "IdentityMerge"
               /\ \E r \in last.pre :
                     /\ r.name = Some(e.op.name)
                     /\ r.imo_number = Some(Str(Val(e.vessel_data.imo_number)))
               /\ e.op.set["ais_mmsi"] = Some(mmsi)
               /\ "imo_number" \notin DOMAIN e.op.set
               /\ \A q \in registry :
                     (\A r \in last.pre : r.name # q.name) =>
                        /\ q.ais_mmsi # Some(mmsi)
                        /\ q.imo_number # Some(AisImo(mmsi))

\* C5 witness: an update whose IMO a row held and whose mmsi no row carried
\* has been merged onto that row and committed.
C5_Witness ==
    /\ last.updates = "committed"
    /\ \E i \in 1..Len(last.log) :
          /\ last.log[i].kind = "IdentityMerge"
          /\ \A r \in last.pre : r.ais_mmsi # Some(MmsiStr(last.log[i].vessel_data))
          /\ \E r \in registry : /\ r.name = Some(last.log[i].op.name)
                                 /\ r.ais_mmsi = Some(MmsiStr(last.log[i].vessel_data))
          /\ Cardinality(registry) = Cardinality(last.pre)

\* C6: when a row holds the genuine IMO I under another mmsi and an update
\* with mmsi B, carried by no row, brings IMO I, the update resolves to an
\* IdentityMerge on that row; once the update group is committed the row
\* (same name, same imo_number) carries mmsi B, provided the update is the
\* last of the batch merged onto the row, and no other row carries mmsi B.
C6_IdentityMerge ==
    \A i \in 1..Len(last.log) : \A r \in last.pre :
        LET e == last.log[i]
            mmsi == MmsiStr(e.vessel_data)
        IN  (/\ HasGenuineImo(e.vessel_data)
             /\ r.imo_number = Some(Str(Val(e.vessel_data.imo_number)))
             /\ r.ais_mmsi # Some(mmsi)
             /\ \A q \in last.pre : q.ais_mmsi # Some(mmsi))
            => /\ e.kind = "IdentityMerge"
               /\ e.op.name = Val(r.name)
               /\ last.updates \in {"committed", "rolled back"}
               /\ Cardinality({q \in registry : q.name = r.name}) = 1
               /\ \A q \in registry : q.name = r.name => q.imo_number = r.imo_number
               /\ \A q \in registry : q.ais_mmsi = Some(mmsi) => q.name = r.name
               /\ (/\ last.updates = "committed"
                   /\ \A j \in (i + 1)..Len(last.log) :
                         ~(last.log[j].kind = "IdentityMerge"
                           /\ last.log[j].op.name = e.op.name))
                  => \E q \in registry : q.name = r.name /\ q.ais_mmsi = Some(mmsi)

\* C6 witness: a committed IdentityMerge moved a row from one mmsi to another.
C6_Witness ==
    /\ last.updates = "committed"
    /\ \E i \in 1..Len(last.log) : \E r \in last.pre : \E q \in registry :
          /\ last.log[i].kind = "IdentityMerge"
          /\ r.name = Some(last.log[i].op.name)
          /\ r.ais_mmsi # None
          /\ r.ais_mmsi # Some(MmsiStr(last.log[i].vessel_data))
          /\ q.name = r.name
          /\ q.ais_mmsi = Some(MmsiStr(last.log[i].vessel_data))
          /\ q.imo_number = r.imo_number

----------------------------------------------------------------------------
(* The change gate *)

\* C2 as stated: for a vessel with a row whose last accepted write is younger
\* than 30 seconds, an update is still accepted, with a new timestamp, when
\* the update and the row both have a position and the latitude or the
\* longitude differs by more than 0.001 degree.
C2_PositionOverridesRateLimit ==
    \A i \in 1..Len(last.log) : \A r \in last.pre :
        LET e == last.log[i]
            d == e.vessel_data
        IN  (/\ r.ais_mmsi = Some(MmsiStr(d))
             /\ e.last_update # None
             /\ last.time - Val(e.last_update) < 30
             /\ TruthyNum(d.latitude) /\ TruthyNum(d.longitude)
             /\ r.ais_last_position_lat # None /\ r.ais_last_position_lon # None
             /\ \/ Abs(Val(d.latitude) - Val(r.ais_last_position_lat)) > 10
                \/ Abs(Val(d.longitude) - Val(r.ais_last_position_lon)) > 10)
            => /\ e.kind = "Update"
               /\ CacheGet(last.cache, CacheKey(MmsiStr(d))) = Some(last.time)

\* C2, what the code does: rule 2 is not overridden by rule 3.  For a vessel with a row
\* whose last accepted write is younger than 30 seconds the update is
\* rejected, the recorded timestamp stays and the row is not written, even
\* when both have a position and the delta exceeds 0.001 degree.
C2_RateLimitOverridesPosition ==
    \A i \in 1..Len(last.log) : \A r \in last.pre :
        LET e == last.log[i]
            d == e.vessel_data
        IN  (/\ r.ais_mmsi = Some(MmsiStr(d))
             /\ e.last_update # None
             /\ last.time - Val(e.last_update) < 30
             /\ TruthyNum(d.latitude) /\ TruthyNum(d.longitude)
             /\ r.ais_last_position_lat # None /\ r.ais_last_position_lon # None
             /\ \/ Abs(Val(d.latitude) - Val(r.ais_last_position_lat)) > 10
                \/ Abs(Val(d.longitude) - Val(r.ais_last_position_lon)) > 10)
            => /\ e.kind = "Rejected"
               /\ CacheGet(last.cache, CacheKey(MmsiStr(d))) = e.last_update
               /\ r \in registry

\* C2 witness: an update that moved the vessel by more than 0.001 degree was
\* rejected because the last accepted write was younger than 30 seconds.
C2_Witness ==
    \E i \in 1..Len(last.log) : \E r \in last.pre :
        LET e == last.log[i]
            d == e.vessel_data
        IN  /\ r.ais_mmsi = Some(MmsiStr(d))
            /\ e.last_update # None
            /\ last.time - Val(e.last_update) < 30
            /\ TruthyNum(d.latitude) /\ TruthyNum(d.longitude)
            /\ r.ais_last_position_lat # None
            /\ Abs(Val(d.latitude) - Val(r.ais_last_position_lat)) > 10
            /\ e.kind = "Rejected"

\* C3: when the same update passes through the gate in two successive
\* batches less than 30 seconds apart and the first is accepted, the second
\* is rejected and writes nothing.
C3_GateIdempotent ==
    \A i \in 1..Len(last.log) : \A j \in 1..Len(prev.log) :
        (/\ last.log[i].vessel_data = prev.log[j].vessel_data
         /\ last.time - prev.time < 30
         /\ prev.log[j].kind \in {"Insert", "Update"})
        => /\ last.log[i].kind = "Rejected"
           /\ registry = last.pre


----------------------------------------------------------------------------
(* Insert path and batch execution *)

\* C7: the imo_number prepare_vessel_insert settles on is the genuine IMO
\* when one is supplied and no row holds it; otherwise it is the first of
\* AIS-<mmsi>, AIS-<mmsi>-1, AIS-<mmsi>-2, ... that no row holds.  It is never
\* an identifier a row already holds, and on an empty registry without an IMO
\* it is AIS-<mmsi>.
C7_InsertImoAssignment ==
    \A i \in 1..Len(last.log) :
        LET e == last.log[i]
            d == e.vessel_data
            chosen == Val(e.op.set["imo_number"])
            taken == {Val(r.imo_number) : r \in {q \in last.pre : q.imo_number # None}}
            Candidate(k) == IF k = 0 THEN <<"AIS-">> \o MmsiStr(d)
                            ELSE <<"AIS-">> \o MmsiStr(d) \o <<"-", ToString(k)>>
        IN  e.kind = "Insert" =>
               /\ chosen \notin taken
               /\ IF HasGenuineImo(d) /\ Str(Val(d.imo_number)) \notin taken
                  THEN chosen = Str(Val(d.imo_number))
                  ELSE \E k \in 0..Cardinality(taken) :
                          /\ chosen = Candidate(k)
                          /\ \A j \in 0..(k - 1) : Candidate(j) \in taken
               /\ (last.pre = {} /\ ~HasGenuineImo(d)) => chosen = <<"AIS-">> \o MmsiStr(d)

\* C7 witness: the supplied IMO and AIS-<mmsi> were both held by rows, and a
\* suffixed identifier was chosen.
C7_Witness ==
    \E i \in 1..Len(last.log) :
        LET e == last.log[i]
            d == e.vessel_data
        IN  /\ e.kind = "Insert"
            /\ HasGenuineImo(d)
            /\ \E r \in last.pre : r.imo_number = Some(Str(Val(d.imo_number)))
            /\ \E r \in last.pre : r.imo_number = Some(<<"AIS-">> \o MmsiStr(d))
            /\ \E r \in last.pre : r.imo_number = Some(<<"AIS-">> \o MmsiStr(d) \o <<"-", "1">>)
            /\ e.op.set["imo_number"] = Some(<<"AIS-">> \o MmsiStr(d) \o <<"-", "2">>)

\* C9: when an insert of a batch is refused for a duplicate imo_number, that
\* insert alone is skipped: every other insert of the batch, before and after
\* it, is in the registry, and the run answers success.
C9_DuplicateInsertSkippedAlone ==
    last.skipped # {} =>
       /\ last.status = "success"
       /\ last.inserts = "committed"
       /\ \A i \in 1..Len(last.log) :
             LET e == last.log[i]
             IN  e.kind = "Insert" =>
                    IF e.op.name \in last.skipped
                    THEN /\ \A r \in registry : r.name # Some(e.op.name)
                         /\ \E r \in registry : r.imo_number = e.op.set["imo_number"]
                    ELSE \E r \in registry :
                            /\ r.name = Some(e.op.name)
                            /\ r.ais_mmsi = Some(MmsiStr(e.vessel_data))
                            /\ r.imo_number = e.op.set["imo_number"]

\* C9 witness: of three inserts the middle one was skipped as a duplicate and
\* the ones before and after it are in the registry.
C9_Witness ==
    \E i, j, k \in 1..Len(last.log) :
        /\ i < j /\ j < k
        /\ last.log[i].kind = "Insert" /\ last.log[j].kind = "Insert"
        /\ last.log[k].kind = "Insert"
        /\ last.log[j].op.name \in last.skipped
        /\ \E r \in registry : r.name = Some(last.log[i].op.name)
        /\ \E r \in registry : r.name = Some(last.log[k].op.name)

\* C10: when the update group of a batch fails and is rolled back, the
\* inserts of the batch are still executed.
C10_InsertsRunAfterFailedUpdates ==
    last.updates = "rolled back" => last.inserts # "not run"


----------------------------------------------------------------------------
(* Aggregation *)

\* C1: within one flush window the pending record of every mmsi holds, field
\* by field, the last non-null value among the updates enqueued for it: a
\* later update without a field never erases the value an earlier one gave.
C1_MergeIsAdditive ==
    \A m \in DOMAIN update_queue.pending :
        \A k \in DOMAIN update_queue.pending[m] \cup DOMAIN window[m] :
            Get(update_queue.pending[m], k) = Get(window[m], k)

----------------------------------------------------------------------------
(* The answer of a batch *)

\* the operations of the last run that changed the registry
AppliedCount ==
    Cardinality({i \in 1..Len(last.log) :
        \/ last.log[i].kind \in {"Update", "IdentityMerge"}
        \/ /\ last.log[i].kind = "Insert"
           /\ last.log[i].op.name \notin last.skipped})

\* C11: the count a successful run of update_vessel_ais_batch returns is the
\* number of operations applied to the registry; an insert skipped for a
\* duplicate imo_number is not counted.
C11_UpdatedCountsAppliedOnly ==
    last.status = "success" => last.updated = AppliedCount

----------------------------------------------------------------------------
(* RateLimitState *)

\* C12 as stated: in every reachable state vessel_cache holds at most
\* MAX_CACHE_SIZE keys.
C12_CacheWithinCeiling ==
    Cardinality(CacheKeys(vessel_cache)) <= MAX_CACHE_SIZE

\* C12 amended: vessel_cache never holds more than MAX_CACHE_SIZE + 1 keys,
\* and a call of should_update_vessel that finds more than MAX_CACHE_SIZE
\* keys and changes the cache leaves at most CACHE_KEEP + 1 of them.
C12_CacheOvershootsByOne ==
    /\ [](Cardinality(CacheKeys(vessel_cache)) <= MAX_CACHE_SIZE + 1)
    /\ [][Len(vessel_cache) > MAX_CACHE_SIZE
            => Len(vessel_cache') <= CACHE_KEEP + 1]_vessel_cache

\* C12 witness: the cache was over the ceiling and the next call trimmed it
\* to the CACHE_KEEP newest entries before writing its own.
C12_Witness ==
    /\ Len(vessel_cache) = CACHE_KEEP + 1
    /\ CacheGet(vessel_cache, CacheKey(Str(MAX_CACHE_SIZE + 2))) # None
    /\ CacheGet(vessel_cache, CacheKey(Str(1))) = None

----------------------------------------------------------------------------
(* StreamClient *)

\* C13: whenever a connection or a connection attempt has ended, for any
\* reason, the next attempt starts no sooner than BACKOFF_SECONDS later.
C13_BackoffBeforeReconnect ==
    (worker.pc = "connect" /\ worker.ended # None)
        => now - Val(worker.ended) >= BACKOFF_SECONDS

\* C14: once should_stop is set the worker starts no new connection attempt,
\* processes no further frame, and eventually returns.
C14_StopLeadsToReturn ==
    /\ [][worker.should_stop =>
            /\ worker'.attempts = worker.attempts
            /\ update_queue' = update_queue /\ jobs' = jobs]_vars
    /\ worker.should_stop ~> (worker.pc = "stopped")

\* C15: when the worker has returned on a stop signal no update is left
\* behind in update_queue: what was pending has been handed over.
C15_NothingPendingAfterStop ==
    worker.pc = "stopped" => update_queue.pending = <<>>

\* C16: a frame that raises while it is handled (malformed JSON, a failing
\* frappe.call or realtime broadcast) leaves the worker on the same open
\* connection, waiting for the next frame: nothing ends, no attempt starts.
C16_FrameErrorContained ==
    [][(/\ worker.pc = "message"
        /\ ~worker.should_stop
        /\ worker'.frame # worker.frame
        /\ LET f == Val(worker.frame) IN ~f.json \/ ~f.call \/ ~f.publish)
       => /\ worker'.pc = "receive"
          /\ worker'.conn = worker.conn
          /\ worker'.attempts = worker.attempts
          /\ worker'.ended = worker.ended]_worker

\* C16 witness: on one connection a frame raised and a later frame was
\* handled to the end.
C16_Witness ==
    worker.erred /\ worker.resumed /\ worker.pc = "receive"

\* C17: every opened connection gets exactly one handshake, sent before any
\* of its frames is delivered.
C17_OneHandshakePerConnection ==
    /\ worker.pc = "subscribe" => worker.subscribed = 0 /\ worker.delivered = 0
    /\ worker.pc \in {"receive", "message"} => worker.subscribed = 1
    /\ worker.delivered > 0 => worker.subscribed = 1
    /\ worker.handshakes = worker.conn - (IF worker.pc = "subscribe" THEN 1 ELSE 0)

\* C17 witness: a frame of the second connection is being handled, and two
\* handshakes have been sent in all.
C17_Witness ==
    /\ worker.conn = 2 /\ worker.handshakes = 2
    /\ worker.pc = "message" /\ worker.delivered = 1

----------------------------------------------------------------------------
(* BatchAggregator *)

----------------------------------------------------------------------------
(* Pipeline order *)

\* C20: every record of a batch for which a registry write is planned (an
\* insert, an update or an identity merge) was put to should_update_vessel
\* and accepted by it.
C20_NoWriteWithoutGate ==
    \A i \in 1..Len(last.log) :
        last.log[i].kind \in {"Insert", "Update", "IdentityMerge"}
            => last.log[i].gated = "accepted"

----------------------------------------------------------------------------
(* C21: a record carrying only an mmsi is never pending nor handed over *)

\* the content the data model asks of a canonical update: a position, a
\* vessel name, a destination or an IMO number
HasContent(vessel_data) ==
    \/ Get(vessel_data, "latitude") # None /\ Get(vessel_data, "longitude") # None
    \/ Get(vessel_data, "vessel_name") # None
    \/ Get(vessel_data, "destination") # None
    \/ Get(vessel_data, "imo_number") # None

\* C21: every record in the pending aggregation map, and every record of a
\* batch handed to the executor, carries more than its mmsi: a position, a
\* vessel name, a destination or an IMO number.
C21_NoMmsiOnlyRecord ==
    /\ \A m \in DOMAIN update_queue.pending : HasContent(update_queue.pending[m])
    /\ \A j \in 1..Len(jobs) : \A i \in 1..Len(jobs[j]) : HasContent(jobs[j][i])

----------------------------------------------------------------------------
(* The gate over minutes *)

\* C22: for a vessel with a row, an update that finds no timestamp recorded
\* for its mmsi, or one older than 300 seconds, is accepted and its time
\* recorded, whatever its position.
C22_ForcedRefresh ==
    \A i \in 1..Len(last.log) : \A r \in last.pre :
        LET e == last.log[i]
            d == e.vessel_data
        IN  (/\ r.ais_mmsi = Some(MmsiStr(d))
             /\ \/ e.last_update = None
                \/ last.time - Val(e.last_update) > 300)
            => /\ e.kind = "Update"
               /\ e.gated = "accepted"
               /\ CacheGet(last.cache, CacheKey(MmsiStr(d))) = Some(last.time)

\* C22 witness: an update without a position was accepted for a vessel whose
\* recorded timestamp was older than 300 seconds, and another was accepted
\* with no timestamp recorded.
C22_Witness ==
    \E i \in 1..Len(last.log) : \E r \in last.pre :
        LET e == last.log[i]
            d == e.vessel_data
        IN  /\ r.ais_mmsi = Some(MmsiStr(d))
            /\ e.last_update # None
            /\ last.time - Val(e.last_update) > 300
            /\ d.latitude = None
            /\ e.kind = "Update"
            /\ CacheGet(last.cache, CacheKey(MmsiStr(d))) = Some(last.time)


\* C23: for a vessel with a row whose last accepted write is between 30 and
\* 300 seconds old, an update whose position is within 0.001 degree, in
\* latitude and in longitude, of the position stored in the row is rejected
\* and the row is not written.
C23_UnmovedVesselRejected ==
    \A i \in 1..Len(last.log) : \A r \in last.pre :
        LET e == last.log[i]
            d == e.vessel_data
        IN  (/\ r.ais_mmsi = Some(MmsiStr(d))
             /\ e.last_update # None
             /\ last.time - Val(e.last_update) >= 30
             /\ last.time - Val(e.last_update) <= 300
             /\ TruthyNum(d.latitude) /\ TruthyNum(d.longitude)
             /\ r.ais_last_position_lat # None /\ r.ais_last_position_lon # None
             /\ Abs(Val(d.latitude) - Val(r.ais_last_position_lat)) <= 10
             /\ Abs(Val(d.longitude) - Val(r.ais_last_position_lon)) <= 10)
            => /\ e.kind = "Rejected"
               /\ r \in registry


\* C24: whenever the gate accepts an update, for a vessel with a row or for
\* one about to be inserted, the cache holds afterwards an entry for its mmsi
\* with the time of the acceptance.
C24_AcceptanceRecorded ==
    \A i \in 1..Len(last.log) :
        last.log[i].gated = "accepted"
        => CacheGet(last.cache, CacheKey(MmsiStr(last.log[i].vessel_data)))
               = Some(last.time)

----------------------------------------------------------------------------
(* Eviction *)

\* C25: a call of should_update_vessel that finds more than MAX_CACHE_SIZE
\* entries retains exactly the CACHE_KEEP entries with the most recent
\* timestamps: the retained entries were in the cache with the timestamps
\* they have, and no entry younger than a retained one was evicted.  The
\* entry of the vessel the call is about, which the call may write after the
\* eviction, is set apart: it was retained when CACHE_KEEP - 1 others were,
\* evicted or absent when CACHE_KEEP others were.
C25_EvictionKeepsNewest ==
    [][(Len(vessel_cache) > MAX_CACHE_SIZE /\ vessel_cache' # vessel_cache) =>
        \E key \in {CacheKey(Str(m)) : m \in GateMmsis} :
        \E own \in {CacheGet(vessel_cache, key)} :
        \E kept \in {{vessel_cache'[i][2] :
                         i \in {j \in 1..Len(vessel_cache') : vessel_cache'[j][1] # key}}} :
        \E oldest \in kept :
        \E before \in {{vessel_cache[i] : i \in 1..Len(vessel_cache)}} :
            LET Other(e) == e[1] # key
                Younger(e) == e[1] # key /\ e[2] > oldest
                YoungerThanOwn(e) == e[1] # key /\ own # None /\ e[2] > Val(own)
                left == Len(SelectSeq(vessel_cache', Other))
            IN  /\ \A u \in kept : oldest <= u
                /\ Len(SelectSeq(vessel_cache', Younger))
                       = Len(SelectSeq(vessel_cache, Younger))
                /\ \/ /\ left = CACHE_KEEP
                      /\ own # None => Val(own) <= oldest
                   \/ /\ left = CACHE_KEEP - 1
                      /\ own # None
                      /\ Len(SelectSeq(vessel_cache', YoungerThanOwn))
                             = Len(SelectSeq(vessel_cache, YoungerThanOwn))
                /\ Cardinality(before) = Len(vessel_cache)
                /\ \A i \in 1..Len(vessel_cache') :
                      vessel_cache'[i][1] = key \/ vessel_cache'[i] \in before
      ]_vessel_cache

\* C25 witness: an eviction has dropped the entry of vessel 1, written at 10,
\* and kept the entry of vessel 2 with its timestamp of 20.
C25_Witness ==
    /\ Len(vessel_cache) <= CACHE_KEEP + 1
    /\ CacheGet(vessel_cache, CacheKey(Str(1))) = None
    /\ CacheGet(vessel_cache, CacheKey(Str(2))) = Some(20)


\* C27: two accepted updates of a vessel with a row are at least 30 seconds
\* apart, eviction or not: a timestamp recorded for a vessel is never
\* replaced by one less than RATE_LIMIT_SECONDS younger.
C27_AcceptedUpdatesSpaced ==
    [][\A m \in GateMmsis :
         \E before \in {CacheGet(vessel_cache, CacheKey(Str(m)))} :
         \E after \in {CacheGet(vessel_cache', CacheKey(Str(m)))} :
            (before # None /\ after # None /\ after # before)
                => Val(after) - Val(before) >= RATE_LIMIT_SECONDS
      ]_vessel_cache

----------------------------------------------------------------------------
(* Worker start-up *)

\* C26: whatever the sequence or interleaving of calls of
\* start_ais_stream_if_needed, at most one job named ais_stream_worker is
\* queued or started at any time.
C26_AtMostOneWorker ==
    Cardinality(ActiveJobs(rq.job)) <= 1

----------------------------------------------------------------------------
(* Concurrent batches *)

\* C28: whatever the interleaving of the executions of update_vessel_ais_batch
\* on the background workers, the table holds at most one row per mmsi.
C28_OneRowPerMmsi ==
    \A r, q \in registry : (r.ais_mmsi # None /\ r.ais_mmsi = q.ais_mmsi) => r = q

----------------------------------------------------------------------------
(* Uniqueness of imo_number within a batch *)

\* C29: an update planned for the row found by its mmsi never sets the row's
\* imo_number to a value another row holds, so no such update makes the
\* update group fail and roll back.
C29_UpdateKeepsImoUnique ==
    \A i \in 1..Len(last.log) :
        LET e == last.log[i]
        IN  (e.kind = "Update" /\ "imo_number" \in DOMAIN e.op.set)
            => ~DuplicateImo(last.pre, e.op.name, e.op.set["imo_number"])

\* C30: with batches executed one at a time, every insert planned for a batch
\* whose insert group ran is applied: none is skipped for a duplicate
\* imo_number, and its row is in the table afterwards.
C30_PlannedInsertsApplied ==
    last.inserts = "committed"
    => /\ last.skipped = {}
       /\ \A i \in 1..Len(last.log) :
            last.log[i].kind = "Insert"
            => \E r \in registry : r.name = Some(last.log[i].op.name)

====
